---- MODULE Spec2Model ----
(***************************************************************************)
(* Model of build_all.py: the build-matrix orchestrator (main), the        *)
(* per-config build state machine (build_target), the streaming runner     *)
(* (run_streamed), config discovery (get_hw_configs) and the terminal      *)
(* status surface (init_status, set_status, _draw_status, clear_status,    *)
(* _spinner_loop).                                                         *)
(*                                                                         *)
(* Names and targets are strings in the program; here they are the ranks   *)
(* of those strings in lexical order, so that the (target, name) sort key  *)
(* can be compared.  0 stands for None (and for a declaration the regular  *)
(* expression did not find).                                               *)
(***************************************************************************)
EXTENDS Integers, Sequences, FiniteSets, TLC

\* Bounds of the model: the number of hw_*.h files glob finds, the height
\* and the largest width of the terminal, the number of lines a child
\* process writes, the length of the longest status text
MaxFiles == 2
ScreenRows == 3
MaxCols == 4
MaxLines == 2
MaxText == 5

\* prev_target = None (line 233); hw_name = None / hw_target = None (122-123)
None == 0

\* HW_NAME values: names are unique, so MaxFiles of them are enough
Names == 1..MaxFiles
\* HW_TARGET values: two SoC targets, as esp32c3 and esp32s3
Targets == {1, 2}

\* The three expected artifacts, in the order lines 192-205 verify and copy them
ArtifactOrder == <<"bin", "boot", "pt">>
Artifacts == {ArtifactOrder[i] : i \in 1..Len(ArtifactOrder)}

VARIABLES
    pc,              \* position of the foreground task in main / build_target
    is_tty,          \* sys.stdout.isatty()
    root_exists,     \* os.path.exists("main/hwconf")
    cmake_cache,     \* os.path.exists("build/CMakeCache.txt")
    dir_target,      \* the target build/ is configured for (IDF_TARGET in the
                     \* cache), None when there is no cache
    work_artifacts,  \* which of the three artifacts exist under build/
    out_dirs,        \* build_output/<name>: made by this run, files copied into it
    configs,         \* main: configs (sorted list of [name, target])
    idx,             \* main: loop index (enumerate(configs, start=1)); 0 before the loop
    success_count,   \* main: success_count
    failed_configs,  \* main: failed_configs (names)
    prev_target,     \* main: prev_target
    is_fresh,        \* build_target: is_fresh
    copy_pos,        \* build_target: which artifact block of lines 192-205 is next
    ret,             \* build_target: the value being returned to main
    cmds,            \* every external command run_streamed has spawned, in order
    calls,           \* every build_target invocation: [cfg, is_fresh, prev_target]
    rets,            \* return value of each completed build_target call
    _status_text,    \* status surface: _status_text
    _spinner_stop,   \* status surface: _spinner_stop (Event)
    _spinner_thread, \* status surface: the thread is "none" (not started), at
                     \* "check" (line 40), at "draw" (line 42), "exited", or
                     \* "killed" with the process (daemon=True)
    scroll_region,   \* terminal: "full" or "reserved" (rows 1..rows-1)
    last_row,        \* terminal: content of the last row; "bar" is the status
                     \* bar with whatever frame glyph _spinner_idx selects
    int_pc,          \* pc at which the last KeyboardInterrupt was raised, or "none"
    exit_path,       \* how the process ended: "none" while running
    exit_code,       \* process exit status, -1 while running
    term,            \* the terminal, row by row: [screen, cur, saved, bottom]
    _spinner_idx,    \* status surface: _spinner_idx
    proc,            \* run_streamed: the child process and its stdout pipe
    written,         \* run_streamed: the lines forwarded to sys.stdout
    fg_draws,        \* run_streamed: the _draw_status calls of line 112
    returncode,      \* run_streamed: proc.returncode as the caller sees it
    term_cols,       \* _cols()
    bar              \* _draw_status: the visible characters of bar

vars == <<pc, is_tty, root_exists, cmake_cache, dir_target, work_artifacts, out_dirs,
          configs, idx, success_count, failed_configs, prev_target, is_fresh,
          copy_pos, ret, cmds, calls, rets, _status_text,
          _spinner_stop, _spinner_thread, scroll_region, last_row, int_pc,
          exit_path, exit_code, term, _spinner_idx, proc, written, fg_draws,
          returncode, term_cols, bar>>

envVars == <<is_tty, root_exists>>
fsVars == <<cmake_cache, dir_target, work_artifacts, out_dirs>>
mainVars == <<configs, idx, success_count, failed_configs, prev_target>>
btVars == <<is_fresh, copy_pos, ret>>
logVars == <<cmds, calls, rets>>
spinVars == <<_spinner_stop, _spinner_thread>>
exitVars == <<int_pc, exit_path, exit_code>>
\* the variables of the row-level terminal, of one run_streamed call and of
\* the bar composition; Spec leaves them alone
sfcVars == <<term, _spinner_idx, proc, written, fg_draws, returncode,
             term_cols, bar>>

----------------------------------------------------------------------------
(* get_hw_configs *)

\* what the two re.search calls extract from one hw_*.h file
FileDecls == [name : {None} \cup Names, target : {None} \cup Targets]

\* line 133: if hw_name and hw_target
IsValid(f) == f.name # None /\ f.target # None

\* BuildConfig.name is unique among the valid files of a tree
UniqueNames(files) ==
    \A i, j \in 1..Len(files) :
        (i # j /\ IsValid(files[i]) /\ IsValid(files[j])) => files[i].name # files[j].name

\* possible results of glob.glob (line 119), in any order
GlobResults ==
    {files \in UNION {[1..n -> FileDecls] : n \in 0..MaxFiles} : UniqueNames(files)}

\* mutant of KeyLess: the key is (name, target)
KeyLess_NameFirst(a, b) ==
    \/ a.name < b.name
    \/ a.name = b.name /\ a.target < b.target

\* sort key of line 142, compared as Python compares tuples
KeyLess(a, b) ==
    \/ a.target < b.target
    \/ a.target = b.target /\ a.name < b.name

RECURSIVE Insert(_, _)
Insert(c, s) ==
    IF s = <<>> THEN <<c>>
    ELSE IF KeyLess(c, Head(s)) THEN <<c>> \o s
    ELSE <<Head(s)>> \o Insert(c, Tail(s))

\* list.sort is stable: an element goes after the elements with an equal key
RECURSIVE SortConfigs(_)
SortConfigs(s) ==
    IF s = <<>> THEN <<>>
    ELSE Insert(s[Len(s)], SortConfigs(SubSeq(s, 1, Len(s) - 1)))

\* lines 121-138: keep the files with both declarations
RECURSIVE ValidConfigs(_)
ValidConfigs(files) ==
    IF files = <<>> THEN <<>>
    ELSE (IF IsValid(Head(files)) THEN <<Head(files)>> ELSE <<>>)
         \o ValidConfigs(Tail(files))

get_hw_configs(files) == SortConfigs(ValidConfigs(files))

----------------------------------------------------------------------------
(* decisions of build_target and main *)

\* mutants of NeedsSetTarget: the fresh test dropped, the target comparison
\* dropped, the first config (prev_target None) never re-targeted
NeedsSetTarget_IgnoreFresh(fresh, prev, target) == prev # target
NeedsSetTarget_IgnorePrev(fresh, prev, target) == ~fresh
NeedsSetTarget_SkipNone(fresh, prev, target) == ~fresh /\ prev # target /\ prev # None

\* lines 162-166: a set-target command is run iff the directory is not fresh
\* and the target differs from prev_target
NeedsSetTarget(fresh, prev, target) == ~fresh /\ prev # target

\* lines 163 / 165: cmd_base carries -DIDF_TARGET only on the fresh path
CarriesTarget(fresh) == fresh

\* mutant of AfterSetTarget: the return code of set-target is not tested
AfterSetTarget_Unchecked(rc) == "build"

\* lines 159-161: what the work directory is configured for after idf.py
\* set-target: the new target when it succeeded; the old one, the new one
\* or nothing (no cache) when it failed
SetTargetOutcomes(rc, dir, target) ==
    IF rc = 0 THEN {target} ELSE {None, dir, target}

\* lines 159-163: what the work directory is configured for after idf.py
\* build: -DIDF_TARGET configures a fresh directory, a configured directory
\* keeps its target; the cache may be missing afterwards
BuildOutcomes(carries, dir, target) ==
    IF carries THEN {None, target} ELSE {None, dir}

\* lines 170-171: a failed set-target returns False, otherwise go on to build
AfterSetTarget(rc) == IF rc # 0 THEN "returned" ELSE "build"

\* mutant of AfterBuild: the copy block runs whatever the build returned
AfterBuild_Unchecked(rc) == "makedirs"

\* lines 178 / 212: a build that exits 0 goes on to the copy block
AfterBuild(rc) == IF rc = 0 THEN "makedirs" ELSE "returned"

\* mutant of ArtifactExists: the partition table is not verified
ArtifactExists_SkipPt(a, present) == a \in present \/ a = "pt"

\* lines 192, 197, 202: os.path.exists(src) for the artifact being copied
ArtifactExists(a, present) == a \in present

\* lines 240-243
CountAfter(count, r) == IF r THEN count + 1 ELSE count
FailedAfter(failed, r, name) == IF r THEN failed ELSE Append(failed, name)

\* mutant of PrevAfter: prev_target follows only the configs that succeeded
PrevAfter_OnlyOnSuccess(prev, r, target) == IF r THEN target ELSE prev

\* line 244: prev_target becomes the target of the config just processed,
\* whatever build_target returned
PrevAfter(prev, r, target) == target

\* mutant of AfterReturn: the loop breaks at the first failed config
AfterReturn_BreakOnFail(r) == IF r THEN "loop" ELSE "clear_status"

\* line 244 and the for statement: the loop goes on whatever was returned
AfterReturn(r) == "loop"

\* mutant of ExitCode: the failed list is not consulted
ExitCode_AlwaysZero(failed) == 0

\* lines 256-261
ExitCode(failed) == IF failed # <<>> THEN 1 ELSE 0
ExitPath(failed) == IF failed # <<>> THEN "failed" ELSE "success"

\* line 57, daemon=True: a spinner thread still running dies with the process
AtExit(thread) == IF thread \in {"check", "draw"} THEN "killed" ELSE thread

\* mutant of Drawn: the isatty test of line 67 is missing
Drawn_NoTtyCheck(row) == "bar"

\* _draw_status (65-81) as seen on the reserved row: nothing without a tty
Drawn(row) == IF is_tty THEN "bar" ELSE row

\* the f-strings of set_status (167, 174, 182, 239)
StatusText(i, phase) == [idx |-> i, phase |-> phase]

----------------------------------------------------------------------------
(* The terminal, row by row, and what the status surface writes to it *)

\* the contents of one row of the screen
Blank == [kind |-> "blank", frame |-> 0, text |-> ""]
Old == [kind |-> "old", frame |-> 0, text |-> ""]
Line(l) == [kind |-> "line", frame |-> 0, text |-> l]

\* _rows()
Rows == ScreenRows

\* the terminal before the program writes to it: the cursor on the last row
\* under earlier output, the scroll region the whole screen
FreshTerm == [screen |-> [r \in 1..Rows |-> Old], cur |-> Rows,
              saved |-> 1, bottom |-> Rows]

\* \033[1;{b}r sets the scroll region to rows 1..b and homes the cursor
SetScrollRegion(t, b) == [t EXCEPT !.bottom = b, !.cur = 1]
\* \033[r
ResetScrollRegion(t) == [t EXCEPT !.bottom = Rows, !.cur = 1]
\* \033[{row};1H
MoveTo(t, row) == [t EXCEPT !.cur = row]
\* \033[2K
EraseLine(t) == [t EXCEPT !.screen[t.cur] = Blank]
\* printable text written at the cursor
WriteText(t, row) == [t EXCEPT !.screen[t.cur] = row]
\* \033[s
SaveCursor(t) == [t EXCEPT !.saved = t.cur]
\* \033[u
RestoreCursor_Stay(t) == t
RestoreCursor(t) == [t EXCEPT !.cur = t.saved]
\* "\n": on the bottom row of the scroll region the region scrolls up by one
\* row, elsewhere the cursor moves down
LineFeed(t) ==
    IF t.cur = t.bottom
    THEN [t EXCEPT !.screen = [r \in 1..Rows |->
                       IF r < t.bottom THEN t.screen[r + 1]
                       ELSE IF r = t.bottom THEN Blank
                       ELSE t.screen[r]]]
    ELSE IF t.cur < Rows THEN [t EXCEPT !.cur = t.cur + 1]
    ELSE t

\* the bar of line 71, as a row: the frame and the status text
Bar(i, st) == [kind |-> "bar", frame |-> i, text |-> st.phase]

\* init_status, lines 48-55
InitStatusWrite(t, tty) ==
    IF tty THEN MoveTo(SetScrollRegion(t, Rows - 1), Rows - 1) ELSE t

\* _draw_status, lines 67-81: one sys.stdout.write of save, move, erase, bar,
\* restore
DrawStatus(t, tty, i, st) ==
    IF tty
    THEN RestoreCursor(WriteText(EraseLine(MoveTo(SaveCursor(t), Rows)),
                                 Bar(i, st)))
    ELSE t

\* clear_status, lines 86-95
ClearStatusWrite(t, tty) ==
    IF tty THEN LineFeed(EraseLine(MoveTo(ResetScrollRegion(t), Rows))) ELSE t

\* run_streamed, line 111: the line of the child, which ends in "\n"
WriteLine(t, tty, l) == IF tty THEN LineFeed(WriteText(t, Line(l))) ELSE t

\* the child process before Popen
NoProc == [state |-> "none", rc |-> -1, pipe |-> <<>>, produced |-> <<>>]

\* line 26
_spinner_frames == <<"|", "/", "-", "\\">>

\* the values Spec keeps in the variables of the row-level terminal
SurfaceIdle ==
    /\ term = FreshTerm
    /\ _spinner_idx = 0
    /\ proc = NoProc
    /\ written = <<>>
    /\ fg_draws = 0
    /\ returncode = -1
    /\ term_cols = 1
    /\ bar = <<>>

----------------------------------------------------------------------------
Init ==
    /\ SurfaceIdle
    /\ pc = "main"
    /\ is_tty \in BOOLEAN
    /\ root_exists \in BOOLEAN
    /\ cmake_cache \in BOOLEAN
    /\ dir_target \in (IF cmake_cache THEN Targets ELSE {None})
    /\ work_artifacts \in (IF cmake_cache THEN {{}, Artifacts} ELSE {{}})
    /\ out_dirs = [n \in Names |-> [made |-> FALSE, files |-> {}]]
    /\ configs = <<>>
    /\ idx = 0
    /\ success_count = 0
    /\ failed_configs = <<>>
    /\ prev_target = None
    /\ is_fresh = FALSE
    /\ copy_pos = 1
    /\ ret = FALSE
    /\ cmds = <<>>
    /\ calls = <<>>
    /\ rets = <<>>
    /\ _status_text = StatusText(0, "")
    /\ _spinner_stop = FALSE
    /\ _spinner_thread = "none"
    /\ scroll_region = "full"
    /\ last_row = "output"
    /\ int_pc = "none"
    /\ exit_path = "none"
    /\ exit_code = -1

----------------------------------------------------------------------------
(* main, up to the loop *)

\* the pcs inside the try block of lines 237-244
TryPcs == {"loop", "build_target", "set_target", "set_target_wait", "build",
           "build_wait", "makedirs", "copy", "returned"}

\* exit statuses an external command can return
ExitCodes == {0, 1}

\* lines 217-219
main_check_root ==
    /\ pc = "main"
    /\ IF root_exists
       THEN /\ pc' = "discover"
            /\ UNCHANGED <<last_row, exit_path, exit_code>>
       ELSE /\ pc' = "exit"
            /\ last_row' = Drawn(last_row)
            /\ exit_path' = "noroot"
            /\ exit_code' = 1
    /\ UNCHANGED <<sfcVars, envVars, fsVars, mainVars, btVars, logVars, _status_text,
                   spinVars, scroll_region, int_pc>>

\* lines 221-233
main_discover ==
    /\ pc = "discover"
    /\ \E files \in GlobResults : configs' = get_hw_configs(files)
    /\ success_count' = 0
    /\ failed_configs' = <<>>
    /\ prev_target' = None
    /\ last_row' = Drawn(last_row)
    /\ pc' = "init_status"
    /\ UNCHANGED <<sfcVars, envVars, fsVars, idx, btVars, logVars, _status_text,
                   spinVars, scroll_region, exitVars>>

\* init_status, lines 48-55: reserve the bottom row
init_status ==
    /\ pc = "init_status"
    /\ IF is_tty
       THEN /\ scroll_region' = "reserved"
            /\ pc' = "init_thread"
       ELSE /\ pc' = "loop"
            /\ UNCHANGED scroll_region
    /\ UNCHANGED <<sfcVars, envVars, fsVars, mainVars, btVars, logVars, _status_text,
                   spinVars, last_row, exitVars>>

\* init_status, lines 56-58: start the spinner thread
init_status_thread ==
    /\ pc = "init_thread"
    /\ _spinner_stop' = FALSE
    /\ _spinner_thread' = "check"
    /\ pc' = "loop"
    /\ UNCHANGED <<sfcVars, envVars, fsVars, mainVars, btVars, logVars, _status_text,
                   scroll_region, last_row, exitVars>>

\* the for statement and line 239
loop_next ==
    /\ pc = "loop"
    /\ IF idx < Len(configs)
       THEN /\ idx' = idx + 1
            /\ _status_text' = StatusText(idx + 1, "Starting")
            /\ pc' = "build_target"
       ELSE /\ pc' = "clear_status"
            /\ UNCHANGED <<idx, _status_text>>
    /\ UNCHANGED <<sfcVars, envVars, fsVars, configs, success_count, failed_configs,
                   prev_target, btVars, logVars, spinVars, scroll_region,
                   last_row, exitVars>>

----------------------------------------------------------------------------
(* build_target *)

\* run_streamed, lines 103-109: the command is spawned
Spawn(kind) ==
    Append(cmds, [cfg |-> idx, kind |-> kind,
                  carries_target |-> CarriesTarget(is_fresh),
                  exited |-> FALSE, rc |-> 0])

\* run_streamed, lines 110-114: the child has exited with rc
Exited(rc) == [cmds EXCEPT ![Len(cmds)] = [@ EXCEPT !.exited = TRUE, !.rc = rc]]

\* lines 149-168
build_target_enter ==
    /\ pc = "build_target"
    /\ is_fresh' = ~cmake_cache
    /\ calls' = Append(calls, [cfg |-> idx, is_fresh |-> ~cmake_cache,
                               prev_target |-> prev_target])
    /\ IF NeedsSetTarget(~cmake_cache, prev_target, configs[idx].target)
       THEN /\ _status_text' = StatusText(idx, "Setting target")
            /\ pc' = "set_target"
       ELSE /\ pc' = "build"
            /\ UNCHANGED _status_text
    /\ last_row' = Drawn(last_row)
    /\ UNCHANGED <<sfcVars, envVars, fsVars, mainVars, copy_pos, ret, cmds, rets,
                   spinVars, scroll_region, exitVars>>

\* line 169: run_streamed(cmd_base + ["set-target", target]) spawns the child
run_set_target ==
    /\ pc = "set_target"
    /\ cmds' = Spawn("set-target")
    /\ pc' = "set_target_wait"
    /\ UNCHANGED <<sfcVars, envVars, fsVars, mainVars, btVars, calls, rets, _status_text,
                   spinVars, scroll_region, last_row, exitVars>>

\* lines 110-114 and 170-171: the set-target child exits; it may have created
\* the cache and may have cleaned the work directory (line 160)
set_target_exit ==
    /\ pc = "set_target_wait"
    /\ \E rc \in ExitCodes :
        /\ cmds' = Exited(rc)
        /\ pc' = AfterSetTarget(rc)
        /\ dir_target' \in SetTargetOutcomes(rc, dir_target, configs[idx].target)
    /\ cmake_cache' = (dir_target' # None)
    /\ work_artifacts' \in {{}, work_artifacts}
    /\ last_row' \in {last_row, Drawn(last_row)}
    /\ ret' = FALSE
    /\ UNCHANGED <<sfcVars, envVars, out_dirs, mainVars, is_fresh, copy_pos, calls, rets,
                   _status_text, spinVars, scroll_region, exitVars>>

\* lines 174-176: run_streamed(cmd_base + ["build"]) spawns the child
run_build ==
    /\ pc = "build"
    /\ _status_text' = StatusText(idx, "Building")
    /\ last_row' = Drawn(last_row)
    /\ cmds' = Spawn("build")
    /\ pc' = "build_wait"
    /\ UNCHANGED <<sfcVars, envVars, fsVars, mainVars, btVars, calls, rets, spinVars,
                   scroll_region, exitVars>>

\* lines 110-114, 178-182 and 212-214: the build child exits
build_exit ==
    /\ pc = "build_wait"
    /\ \E rc \in ExitCodes :
        /\ cmds' = Exited(rc)
        /\ pc' = AfterBuild(rc)
        /\ _status_text' = IF rc = 0 THEN StatusText(idx, "Copying artifacts")
                           ELSE _status_text
    /\ dir_target' \in BuildOutcomes(cmds[Len(cmds)].carries_target, dir_target,
                                     configs[idx].target)
    /\ cmake_cache' = (dir_target' # None)
    /\ work_artifacts' \in SUBSET Artifacts
    /\ last_row' = Drawn(last_row)
    /\ copy_pos' = 1
    /\ ret' = FALSE
    /\ UNCHANGED <<sfcVars, envVars, out_dirs, mainVars, is_fresh, calls, rets,
                   spinVars, scroll_region, exitVars>>

\* lines 184-185
makedirs ==
    /\ pc = "makedirs"
    /\ out_dirs' = [out_dirs EXCEPT ![configs[idx].name].made = TRUE]
    /\ pc' = "copy"
    /\ UNCHANGED <<sfcVars, envVars, cmake_cache, dir_target, work_artifacts, mainVars, btVars,
                   logVars, _status_text, spinVars, scroll_region, last_row,
                   exitVars>>

\* one of the three blocks of lines 192-205, or the handler of 207-209
copy_artifact ==
    /\ pc = "copy"
    /\ LET a == ArtifactOrder[copy_pos] IN
       IF ArtifactExists(a, work_artifacts)
       THEN /\ out_dirs' = [out_dirs EXCEPT ![configs[idx].name].files = @ \cup {a}]
            /\ IF copy_pos = Len(ArtifactOrder)
               THEN /\ ret' = TRUE
                    /\ pc' = "returned"
                    /\ UNCHANGED copy_pos
               ELSE /\ copy_pos' = copy_pos + 1
                    /\ UNCHANGED <<ret, pc>>
       ELSE /\ ret' = FALSE
            /\ pc' = "returned"
            /\ UNCHANGED <<out_dirs, copy_pos>>
    /\ last_row' = Drawn(last_row)
    /\ UNCHANGED <<sfcVars, envVars, cmake_cache, dir_target, work_artifacts, mainVars, is_fresh,
                   logVars, _status_text, spinVars, scroll_region, exitVars>>

\* lines 240-244: main takes the value build_target returned
build_target_return ==
    /\ pc = "returned"
    /\ rets' = Append(rets, ret)
    /\ success_count' = CountAfter(success_count, ret)
    /\ failed_configs' = FailedAfter(failed_configs, ret, configs[idx].name)
    /\ prev_target' = PrevAfter(prev_target, ret, configs[idx].target)
    /\ pc' = AfterReturn(ret)
    /\ UNCHANGED <<sfcVars, envVars, fsVars, configs, idx, btVars, cmds, calls,
                   _status_text, spinVars, scroll_region, last_row, exitVars>>

----------------------------------------------------------------------------
(* the end of main, the interrupt and the spinner thread *)

\* clear_status, lines 85-95, as called at line 250
clear_status ==
    /\ pc = "clear_status"
    /\ _spinner_stop' = TRUE
    /\ scroll_region' = IF is_tty THEN "full" ELSE scroll_region
    /\ last_row' = IF is_tty THEN "blank" ELSE last_row
    /\ pc' = "summary"
    /\ UNCHANGED <<sfcVars, envVars, fsVars, mainVars, btVars, logVars, _status_text,
                   _spinner_thread, exitVars>>

\* lines 252-261
summary ==
    /\ pc = "summary"
    /\ last_row' = Drawn(last_row)
    /\ exit_code' = ExitCode(failed_configs)
    /\ exit_path' = ExitPath(failed_configs)
    /\ _spinner_thread' = AtExit(_spinner_thread)
    /\ pc' = "exit"
    /\ UNCHANGED <<sfcVars, envVars, fsVars, mainVars, btVars, logVars, _status_text,
                   _spinner_stop, scroll_region, int_pc>>

\* a KeyboardInterrupt is raised in the foreground task: caught by line 245
\* inside the try block, a traceback and a signal exit anywhere else
KeyboardInterrupt ==
    /\ pc # "exit"
    /\ int_pc' = pc
    /\ IF pc \in TryPcs
       THEN /\ pc' = "except"
            /\ UNCHANGED <<exit_path, exit_code, _spinner_thread>>
       ELSE /\ pc' = "exit"
            /\ exit_path' = "traceback"
            /\ exit_code' = 130
            /\ _spinner_thread' = AtExit(_spinner_thread)
    /\ UNCHANGED <<sfcVars, envVars, fsVars, mainVars, btVars, logVars, _status_text,
                   _spinner_stop, scroll_region, last_row>>

\* lines 245-248: clear_status, the report, sys.exit(1)
except_handler ==
    /\ pc = "except"
    /\ _spinner_stop' = TRUE
    /\ scroll_region' = IF is_tty THEN "full" ELSE scroll_region
    /\ last_row' = Drawn(last_row)
    /\ exit_path' = "interrupted"
    /\ exit_code' = 1
    /\ _spinner_thread' = AtExit(_spinner_thread)
    /\ pc' = "exit"
    /\ UNCHANGED <<sfcVars, envVars, fsVars, mainVars, btVars, logVars, _status_text,
                   int_pc>>

\* _spinner_loop, lines 40-41: test the stop event, advance the frame (which
\* changes only the glyph of the next bar)
spinner_check ==
    /\ pc # "exit"
    /\ _spinner_thread = "check"
    /\ _spinner_thread' = IF _spinner_stop THEN "exited" ELSE "draw"
    /\ UNCHANGED <<pc, sfcVars, envVars, fsVars, mainVars, btVars, logVars, _status_text,
                   _spinner_stop, scroll_region, last_row, exitVars>>

\* _spinner_loop, lines 42-43: redraw, sleep
spinner_draw ==
    /\ pc # "exit"
    /\ _spinner_thread = "draw"
    /\ last_row' = Drawn(last_row)
    /\ _spinner_thread' = "check"
    /\ UNCHANGED <<pc, sfcVars, envVars, fsVars, mainVars, btVars, logVars, _status_text,
                   _spinner_stop, scroll_region, exitVars>>

Foreground ==
    \/ main_check_root
    \/ main_discover
    \/ init_status
    \/ init_status_thread
    \/ loop_next
    \/ build_target_enter
    \/ run_set_target
    \/ set_target_exit
    \/ run_build
    \/ build_exit
    \/ makedirs
    \/ copy_artifact
    \/ build_target_return
    \/ clear_status
    \/ summary
    \/ except_handler

Next ==
    \/ Foreground
    \/ KeyboardInterrupt
    \/ spinner_check
    \/ spinner_draw

Spec == Init /\ [][Next]_vars

\* the foreground task keeps running and every child process exits
FairSpec == Spec /\ WF_vars(Foreground)

----------------------------------------------------------------------------
(* The status surface around one run_streamed call, with the terminal row by
   row: init_status, run_streamed line by line, clear_status called twice in
   a row, and the spinner thread *)

\* the variables of Spec that the surface specifications leave alone
buildVars == <<root_exists, fsVars, mainVars, btVars, calls, rets,
               scroll_region, last_row, exitVars>>

\* the lines a child process can write
Lines == {"a", "b"}

\* the status texts of the two run_streamed calls, lines 167 and 174
StreamedTexts == {StatusText(1, "Setting target"), StatusText(1, "Building")}

SurfaceInit ==
    /\ pc = "s_init_status"
    /\ is_tty \in BOOLEAN
    /\ _status_text \in StreamedTexts
    /\ _spinner_stop = FALSE
    /\ _spinner_thread = "none"
    /\ SurfaceIdle
    /\ root_exists = TRUE
    /\ cmake_cache = FALSE
    /\ dir_target = None
    /\ work_artifacts = {}
    /\ out_dirs = [n \in Names |-> [made |-> FALSE, files |-> {}]]
    /\ configs = <<>>
    /\ idx = 0
    /\ success_count = 0
    /\ failed_configs = <<>>
    /\ prev_target = None
    /\ is_fresh = FALSE
    /\ copy_pos = 1
    /\ ret = FALSE
    /\ cmds = <<>>
    /\ calls = <<>>
    /\ rets = <<>>
    /\ scroll_region = "full"
    /\ last_row = "output"
    /\ int_pc = "none"
    /\ exit_path = "none"
    /\ exit_code = -1

\* init_status, lines 45-58
s_init_status ==
    /\ pc = "s_init_status"
    /\ term' = InitStatusWrite(term, is_tty)
    /\ _spinner_thread' = IF is_tty THEN "check" ELSE "none"
    /\ pc' = "s_popen"
    /\ UNCHANGED <<is_tty, buildVars, cmds, _status_text, _spinner_stop,
                   _spinner_idx, proc, written, fg_draws, returncode,
                   term_cols, bar>>

\* run_streamed, lines 103-109
s_popen ==
    /\ pc = "s_popen"
    /\ proc' = [NoProc EXCEPT !.state = "running"]
    /\ pc' = "s_for"
    /\ UNCHANGED <<is_tty, buildVars, cmds, _status_text, spinVars, term,
                   _spinner_idx, written, fg_draws, returncode, term_cols, bar>>

\* the child process writes a line to its stdout
child_write ==
    /\ proc.state = "running"
    /\ Len(proc.produced) < MaxLines
    /\ \E l \in Lines :
           proc' = [proc EXCEPT !.pipe = Append(@, l),
                                !.produced = Append(@, l)]
    /\ UNCHANGED <<pc, is_tty, buildVars, cmds, _status_text, spinVars, term,
                   _spinner_idx, written, fg_draws, returncode, term_cols, bar>>

\* the child process exits, which closes its stdout
child_exit ==
    /\ proc.state = "running"
    /\ \E rc \in ExitCodes : proc' = [proc EXCEPT !.state = "exited", !.rc = rc]
    /\ UNCHANGED <<pc, is_tty, buildVars, cmds, _status_text, spinVars, term,
                   _spinner_idx, written, fg_draws, returncode, term_cols, bar>>

\* run_streamed, line 112: what follows the write of a line
AfterLine_NoRedraw == "s_for"
AfterLine == "s_draw"

\* run_streamed, line 110: the iteration over proc.stdout ends at end of
\* file, when the pipe is empty and the child has closed it
EndOfStream(p) == p.pipe = <<>> /\ p.state = "exited"

\* run_streamed, lines 110-111
s_read_line ==
    /\ pc = "s_for"
    /\ proc.pipe # <<>>
    /\ proc' = [proc EXCEPT !.pipe = Tail(@)]
    /\ written' = Append(written, Head(proc.pipe))
    /\ term' = WriteLine(term, is_tty, Head(proc.pipe))
    /\ pc' = AfterLine
    /\ UNCHANGED <<is_tty, buildVars, cmds, _status_text, spinVars,
                   _spinner_idx, fg_draws, returncode, term_cols,
                   bar>>

\* run_streamed, line 112
s_draw ==
    /\ pc = "s_draw"
    /\ term' = DrawStatus(term, is_tty, _spinner_idx, _status_text)
    /\ fg_draws' = fg_draws + 1
    /\ pc' = "s_for"
    /\ UNCHANGED <<is_tty, buildVars, cmds, _status_text, spinVars,
                   _spinner_idx, proc, written, returncode, term_cols, bar>>

\* run_streamed, lines 113-114
s_wait ==
    /\ pc = "s_for"
    /\ EndOfStream(proc)
    /\ returncode' = proc.rc
    /\ pc' = "s_clear_status"
    /\ UNCHANGED <<is_tty, buildVars, cmds, _status_text, spinVars, term,
                   _spinner_idx, proc, written, fg_draws, term_cols, bar>>

\* clear_status, lines 83-95, called once and then once more
s_clear_status ==
    /\ pc \in {"s_clear_status", "s_cleared"}
    /\ _spinner_stop' = TRUE
    /\ term' = ClearStatusWrite(term, is_tty)
    /\ pc' = IF pc = "s_clear_status" THEN "s_cleared" ELSE "s_cleared_twice"
    /\ UNCHANGED <<is_tty, buildVars, cmds, _status_text, _spinner_thread,
                   _spinner_idx, proc, written, fg_draws, returncode,
                   term_cols, bar>>

\* _spinner_loop, lines 40-41
s_spinner_check ==
    /\ _spinner_thread = "check"
    /\ IF _spinner_stop
       THEN /\ _spinner_thread' = "exited"
            /\ UNCHANGED _spinner_idx
       ELSE /\ _spinner_thread' = "draw"
            /\ _spinner_idx' = (_spinner_idx + 1) % Len(_spinner_frames)
    /\ UNCHANGED <<pc, is_tty, buildVars, cmds, _status_text, _spinner_stop,
                   term, proc, written, fg_draws, returncode, term_cols, bar>>

\* _spinner_loop, lines 42-43
s_spinner_draw ==
    /\ _spinner_thread = "draw"
    /\ term' = DrawStatus(term, is_tty, _spinner_idx, _status_text)
    /\ _spinner_thread' = "check"
    /\ UNCHANGED <<pc, is_tty, buildVars, cmds, _status_text, _spinner_stop,
                   _spinner_idx, proc, written, fg_draws, returncode,
                   term_cols, bar>>

SurfaceNext ==
    \/ s_init_status
    \/ s_popen
    \/ child_write
    \/ child_exit
    \/ s_read_line
    \/ s_draw
    \/ s_wait
    \/ s_clear_status
    \/ s_spinner_check
    \/ s_spinner_draw

SurfaceSpec == SurfaceInit /\ [][SurfaceNext]_vars

----------------------------------------------------------------------------
(* The bar of _draw_status, character by character *)

Max(a, b) == IF a >= b THEN a ELSE b

\* a status text of n characters
TextOfLen(n) == [k \in 1..n |-> "x"]

\* line 71
BarText(i, st) == <<_spinner_frames[i + 1], " ">> \o st

\* line 72
Pad(cols, bar_text) == Max(0, cols - Len(bar_text))

\* line 73, without the colour sequences, which take no column
BarVisible(i, st, cols) ==
    BarText(i, st) \o [k \in 1..Pad(cols, BarText(i, st)) |-> " "]

\* in BarSpec _status_text is the text itself, a sequence of characters
BarInit ==
    /\ pc = "b_draw_status"
    /\ is_tty = TRUE
    /\ _status_text \in {TextOfLen(n) : n \in 0..MaxText}
    /\ _spinner_idx \in 0..(Len(_spinner_frames) - 1)
    /\ term_cols \in 1..MaxCols
    /\ bar = <<>>
    /\ _spinner_stop = FALSE
    /\ _spinner_thread = "check"
    /\ term = FreshTerm
    /\ proc = NoProc
    /\ written = <<>>
    /\ fg_draws = 0
    /\ returncode = -1
    /\ root_exists = TRUE
    /\ cmake_cache = FALSE
    /\ dir_target = None
    /\ work_artifacts = {}
    /\ out_dirs = [n \in Names |-> [made |-> FALSE, files |-> {}]]
    /\ configs = <<>>
    /\ idx = 0
    /\ success_count = 0
    /\ failed_configs = <<>>
    /\ prev_target = None
    /\ is_fresh = FALSE
    /\ copy_pos = 1
    /\ ret = FALSE
    /\ cmds = <<>>
    /\ calls = <<>>
    /\ rets = <<>>
    /\ scroll_region = "full"
    /\ last_row = "output"
    /\ int_pc = "none"
    /\ exit_path = "none"
    /\ exit_code = -1

\* _draw_status, lines 69-81
b_draw_status ==
    /\ pc = "b_draw_status"
    /\ bar' = BarVisible(_spinner_idx, _status_text, term_cols)
    /\ pc' = "b_drawn"
    /\ UNCHANGED <<is_tty, buildVars, cmds, _status_text, spinVars, term,
                   _spinner_idx, proc, written, fg_draws, returncode,
                   term_cols>>

BarNext == b_draw_status

BarSpec == BarInit /\ [][BarNext]_vars

----------------------------------------------------------------------------
(* Properties *)

\* positions in cmds of the commands spawned for config i
CmdsOf(i) == {k \in DOMAIN cmds : cmds[k].cfg = i}
SetTargetsOf(i) == {k \in CmdsOf(i) : cmds[k].kind = "set-target"}
BuildsOf(i) == {k \in CmdsOf(i) : cmds[k].kind = "build"}

TargetOf(i) == configs[i].target
NameOf(i) == configs[i].name
InFailed(name) == \E j \in DOMAIN failed_configs : failed_configs[j] = name
Succeeded == {j \in DOMAIN rets : rets[j]}
Returned(i) == i \in DOMAIN rets

\* C1: a config that finds the work directory fresh gets no set-target
\* command, whatever prev_target is; the only command spawned for it is one
\* build command carrying -DIDF_TARGET.
C1_FreshNeverRetargets ==
    \A c \in DOMAIN calls :
        calls[c].is_fresh =>
            /\ SetTargetsOf(calls[c].cfg) = {}
            /\ Cardinality(CmdsOf(calls[c].cfg)) <= 1
            /\ \A k \in CmdsOf(calls[c].cfg) :
                   cmds[k].kind = "build" /\ cmds[k].carries_target

\* a fresh config whose target differs from a known prev_target has built
C1_Witness ==
    \E c \in DOMAIN calls :
        /\ calls[c].is_fresh
        /\ calls[c].prev_target \notin {None, TargetOf(calls[c].cfg)}
        /\ \E k \in BuildsOf(calls[c].cfg) : cmds[k].exited

\* C2: a config that finds the work directory not fresh and prev_target equal
\* to its target gets no set-target command; the first command spawned for it
\* is the build command.
C2_SameTargetNoRetarget ==
    \A c \in DOMAIN calls :
        (~calls[c].is_fresh /\ calls[c].prev_target = TargetOf(calls[c].cfg)) =>
            /\ SetTargetsOf(calls[c].cfg) = {}
            /\ \A k \in CmdsOf(calls[c].cfg) :
                   (\A j \in CmdsOf(calls[c].cfg) : k <= j) => cmds[k].kind = "build"

C2_Witness ==
    \E c \in DOMAIN calls :
        /\ ~calls[c].is_fresh
        /\ calls[c].prev_target = TargetOf(calls[c].cfg)
        /\ \E k \in BuildsOf(calls[c].cfg) : cmds[k].exited

\* C3: a config that finds the work directory not fresh and prev_target
\* different from its target (None included) gets exactly one set-target
\* command, spawned and exited before its build command is spawned.
C3_ChangedTargetRetargetsOnce ==
    \A c \in DOMAIN calls :
        (~calls[c].is_fresh /\ calls[c].prev_target # TargetOf(calls[c].cfg)) =>
            /\ Cardinality(SetTargetsOf(calls[c].cfg)) <= 1
            /\ Returned(calls[c].cfg) => Cardinality(SetTargetsOf(calls[c].cfg)) = 1
            /\ \A b \in BuildsOf(calls[c].cfg) :
                   \E k \in SetTargetsOf(calls[c].cfg) : k < b /\ cmds[k].exited

\* the first config (prev_target None) and a later config whose target
\* changed have both re-targeted and then built
C3_Witness ==
    /\ \E c \in DOMAIN calls :
        /\ ~calls[c].is_fresh
        /\ calls[c].prev_target = None
        /\ BuildsOf(calls[c].cfg) # {}
    /\ \E c \in DOMAIN calls :
        /\ ~calls[c].is_fresh
        /\ calls[c].prev_target \notin {None, TargetOf(calls[c].cfg)}
        /\ BuildsOf(calls[c].cfg) # {}

\* C4: when the set-target command of a config exits nonzero, build_target
\* returns False at once, main appends the name to failed_configs, and no
\* build command is spawned and nothing is copied for that config.
C4_RetargetFailureSkipsBuild ==
    \A k \in DOMAIN cmds :
        (cmds[k].kind = "set-target" /\ cmds[k].exited /\ cmds[k].rc # 0) =>
            LET i == cmds[k].cfg IN
            /\ BuildsOf(i) = {}
            /\ ~out_dirs[NameOf(i)].made
            /\ out_dirs[NameOf(i)].files = {}
            /\ Returned(i) => (~rets[i] /\ InFailed(NameOf(i)))
            /\ (~Returned(i) /\ pc \notin {"except", "exit"}) =>
                   (idx = i /\ pc = "returned" /\ ~ret)

C4_Witness ==
    \E k \in DOMAIN cmds :
        /\ cmds[k].kind = "set-target" /\ cmds[k].exited /\ cmds[k].rc # 0
        /\ Returned(cmds[k].cfg)
        /\ InFailed(NameOf(cmds[k].cfg))

\* the build command of the config main has just finished with exited 0
BuildSucceededFor(i) ==
    /\ cmds # <<>>
    /\ cmds[Len(cmds)].cfg = i
    /\ cmds[Len(cmds)].kind = "build"
    /\ cmds[Len(cmds)].exited
    /\ cmds[Len(cmds)].rc = 0

\* C5: when the build command exits 0 and one of the three artifacts is
\* missing from the work directory, build_target returns False: the config
\* is in failed_configs and not in success_count.
C5_MissingArtifactFails ==
    /\ (pc = "returned" /\ BuildSucceededFor(idx) /\ work_artifacts # Artifacts) => ~ret
    /\ (idx >= 1 /\ Len(rets) = idx /\ BuildSucceededFor(idx)
            /\ work_artifacts # Artifacts) =>
           /\ ~rets[idx]
           /\ InFailed(NameOf(idx))
           /\ success_count = Cardinality(Succeeded)

\* the build exited 0, only the partition table is missing, the config failed
C5_Witness ==
    /\ idx >= 1 /\ Len(rets) = idx /\ BuildSucceededFor(idx)
    /\ work_artifacts = Artifacts \ {"pt"}
    /\ ~rets[idx]
    /\ InFailed(NameOf(idx))

\* C6: an output subdirectory that this run made or copied into belongs to a
\* config whose three artifacts all existed and whose outcome is success.
C6_OutputOnlyOnVerifiedSuccess ==
    \A i \in DOMAIN configs :
        (out_dirs[NameOf(i)].made \/ out_dirs[NameOf(i)].files # {}) =>
            /\ Returned(i) => rets[i]
            /\ (~Returned(i) /\ idx = i /\ BuildSucceededFor(i)) => work_artifacts = Artifacts

\* failed_configs is exactly the names of the configs that returned False
FailedMatchesRets ==
    /\ success_count = Cardinality(Succeeded)
    /\ Len(failed_configs) = Len(rets) - Cardinality(Succeeded)
    /\ \A j \in DOMAIN rets : rets[j] <=> ~InFailed(NameOf(j))

\* C7: when the build command of a config exits nonzero, its name is in
\* failed_configs, success_count does not count it, the other configs are
\* counted as they returned, and its output subdirectory is not made.
C7_BuildFailureIsolated ==
    \A k \in DOMAIN cmds :
        (cmds[k].kind = "build" /\ cmds[k].exited /\ cmds[k].rc # 0) =>
            LET i == cmds[k].cfg IN
            /\ ~out_dirs[NameOf(i)].made
            /\ out_dirs[NameOf(i)].files = {}
            /\ Returned(i) => (~rets[i] /\ InFailed(NameOf(i)) /\ FailedMatchesRets)

\* one config's build failed, another succeeded, the run ended 1/2
C7_Witness ==
    /\ pc = "exit" /\ exit_path = "failed" /\ exit_code = 1
    /\ success_count = 1
    /\ Len(failed_configs) = 1
    /\ \E k \in DOMAIN cmds :
        /\ cmds[k].kind = "build" /\ cmds[k].exited /\ cmds[k].rc # 0
        /\ failed_configs = <<NameOf(cmds[k].cfg)>>
    /\ \E n \in Names : out_dirs[n].files = Artifacts

\* C8: an uninterrupted run with main/hwconf present exits 0 iff every config
\* succeeded (also with no config) and 1 if one failed; success_count is the
\* number of True returns and success_count + len(failed_configs) = total.
C8_ExitCodeAndCounts ==
    (pc = "exit" /\ int_pc = "none" /\ root_exists) =>
        /\ exit_code \in {0, 1}
        /\ exit_code = 0 <=> (\A i \in DOMAIN configs : Returned(i) /\ rets[i])
        /\ (\E i \in DOMAIN rets : ~rets[i]) => exit_code = 1
        /\ success_count = Cardinality(Succeeded)
        /\ success_count + Len(failed_configs) = Len(configs)

C8_Witness ==
    /\ pc = "exit" /\ int_pc = "none" /\ root_exists
    /\ Len(configs) = 2
    /\ success_count = 1
    /\ exit_code = 1

\* C9: without a KeyboardInterrupt, whatever step fails for a config, every
\* config is handed to build_target once, in list order, and the run reaches
\* the summary.
C9_RunReachesSummary ==
    <>(\/ int_pc # "none"
       \/ ~root_exists
       \/ /\ pc = "exit"
          /\ exit_path \in {"success", "failed"}
          /\ Len(calls) = Len(configs)
          /\ \A c \in DOMAIN calls : calls[c].cfg = c)

\* the first config failed, the second was still attempted, summary reached
C9_Witness ==
    /\ pc = "exit" /\ int_pc = "none" /\ exit_path = "failed"
    /\ Len(configs) = 2
    /\ Len(calls) = 2
    /\ ~rets[1]

\* the pcs after init_status has written the scroll region (lines 51-55)
AfterReservePcs == {"init_thread", "clear_status", "summary", "except"} \cup TryPcs

\* C10: after a KeyboardInterrupt raised once the bottom row is reserved, the
\* process exits with the scroll region reset to the full screen, on the
\* "interrupted" path.
C10_InterruptRestoresTerminal ==
    (pc = "exit" /\ is_tty /\ int_pc \in AfterReservePcs) =>
        (scroll_region = "full" /\ exit_path = "interrupted")

\* C11: when clear_status has written the teardown sequence, the spinner
\* thread has terminated, so it writes no redraw during or after it.
C11_StopJoinsSpinner ==
    (is_tty /\ _spinner_stop /\ pc \in {"summary", "exit"}) =>
        _spinner_thread \notin {"check", "draw", "killed"}

\* C12: without an interactive terminal no scroll region is set, nothing is
\* drawn on the last row and no spinner thread is started, while every
\* operation returns and the run goes on.
C12_NoTtyNoRendering ==
    ~is_tty =>
        /\ scroll_region = "full"
        /\ last_row = "output"
        /\ _spinner_thread = "none"

\* a run without a terminal went through init_status, the status calls of a
\* successful config and clear_status, and ended
C12_Witness ==
    /\ ~is_tty
    /\ pc = "exit" /\ exit_path = "success"
    /\ success_count >= 1
    /\ _spinner_stop

\* C13: the configs are handed to build_target in ascending (target, name)
\* order, so the configs of one target are contiguous.
C13_ProcessedInTargetNameOrder ==
    /\ \A i, j \in DOMAIN configs :
           i < j =>
               \/ configs[i].target < configs[j].target
               \/ configs[i].target = configs[j].target
                  /\ configs[i].name < configs[j].name
    /\ \A c \in DOMAIN calls : calls[c].cfg = c

\* two configs were processed, the one with the smaller target and the
\* larger name first
C13_Witness ==
    /\ Len(calls) = 2
    /\ configs[1].target < configs[2].target
    /\ configs[1].name > configs[2].name

\* C14: build_target is called for config k+1 with prev_target equal to the
\* target of config k, whatever config k returned, and with None for the
\* first config.
C14_PrevTargetUnconditional ==
    \A c \in DOMAIN calls :
        calls[c].prev_target = IF c = 1 THEN None ELSE TargetOf(c - 1)

\* the first config failed and the second, of another target, was called
C14_Witness ==
    /\ Len(calls) = 2
    /\ Returned(1) /\ ~rets[1]
    /\ TargetOf(1) # TargetOf(2)
    /\ calls[2].prev_target = TargetOf(1)

\* the positions of one run_streamed call
StreamingPcs == {"s_popen", "s_for", "s_draw"}

\* a redraw by either caller of _draw_status
DrawStep == s_draw \/ s_spinner_draw

C16_StreamsInOrderThenReturns ==
    /\ Len(written) <= Len(proc.produced)
    /\ written = SubSeq(proc.produced, 1, Len(written))
    /\ pc = "s_for" => fg_draws = Len(written)
    /\ pc = "s_draw" => fg_draws = Len(written) - 1
    /\ pc \in {"s_clear_status", "s_cleared", "s_cleared_twice"} =>
           /\ proc.state = "exited"
           /\ written = proc.produced
           /\ fg_draws = Len(written)
           /\ returncode = proc.rc

C16_Witness ==
    /\ pc = "s_clear_status"
    /\ Len(written) = 2
    /\ written[1] # written[2]
    /\ fg_draws = 2
    /\ returncode = 1

\* C17: the visible characters _draw_status writes to the last row are
\* exactly as many as the terminal has columns
C17_BarIsTerminalWide == pc = "b_drawn" => Len(bar) = term_cols

\* C18: a second clear_status call right after the first changes neither the
\* stop flag nor the scroll region nor any row of the screen
C18_SecondClearChangesNothing ==
    [][(pc = "s_cleared" /\ s_clear_status) =>
           /\ _spinner_stop' = _spinner_stop
           /\ term'.bottom = term.bottom
           /\ term'.screen = term.screen]_vars

\* C19: the status bar is on the last row only while the bottom row is
\* reserved, between init_status and clear_status.
C19_BarOnlyWhileReserved ==
    (is_tty /\ scroll_region = "full") => last_row # "bar"

\* C20: whenever a build command runs for a config, the work directory is
\* configured for that config's target: the command carries the target, or
\* the directory has been re-targeted to it.
C20_BuildsAgainstOwnTarget ==
    pc = "build_wait" =>
        \/ cmds[Len(cmds)].carries_target
        \/ dir_target = TargetOf(idx)

====
